---- MODULE Spec2Model ----
(***************************************************************************)
(* CreateCustomResources of operator-kit (resource.go): registration of    *)
(* custom resource declarations (CRD on Kubernetes >= 1.7.0, TPR below)    *)
(* followed by a polled wait for each of them, against a control plane     *)
(* whose answers are chosen nondeterministically.                          *)
(***************************************************************************)
EXTENDS Integers, Sequences, FiniteSets, TLC

\* ------------------------------------------------------------------ bounds
MaxRes == 2        \* longest descriptor list passed to CreateCustomResources
MaxInterval == 2   \* largest Context.Interval (time units)
MaxTimeout == 3    \* largest Context.Timeout (time units)

\* ------------------------------------------------------------- error values
\* A Go error: its kind (format string or sentinel), the resource name the
\* message carries, and the errors it embeds.
Err(kind, name, causes) == [kind |-> kind, name |-> name, causes |-> causes]
Nil == Err("nil", "", <<>>)
\* the answer of a call that has not been made / a result not yet produced
None == Err("none", "", <<>>)
ApiErr(reason) == Err(reason, "", <<>>)
ErrWaitTimeout == Err("timed out waiting for the condition", "", <<>>)

IsAlreadyExists(err) == err.kind = "AlreadyExists"
IsNotFound(err) == err.kind = "NotFound"

\* ------------------------------------------------------------- descriptors
Resources ==
  { [Name |-> "pool", Plural |-> "pools", Group |-> "rook.io"],
    [Name |-> "volume", Plural |-> "volumes", Group |-> "rook.io"] }

\* The descriptor lists of a call: "pool" and "volume" in turn, so that a
\* list of three names "pool" twice.
ResourceLists ==
  { l \in UNION { [1..n -> Resources] : n \in 0..MaxRes } :
      \A k \in 1..Len(l) : l[k].Name = (IF k % 2 = 1 THEN "pool" ELSE "volume") }

crdName(resource) == <<resource.Plural, resource.Group>>
tprName(resource) == <<resource.Name, resource.Group>>

Contexts == [Interval : 1..MaxInterval, Timeout : 1..MaxTimeout]

\* ---------------------------------------------------------------- versions
\* A version string ("v1.6.9") is modelled by the sequence of its
\* dot-separated components; -1 stands for a component that is not a number.
GitVersions ==
  { <<1, 6, 9>>, <<0, 9, 0>>, <<1, 7, 0>>, <<1, 10, 2>>, <<1, 7>>, <<1, -1, 0>> }

NoVersion == <<>>

\* A parse that accepts any number of components, as ParseGeneric does.
IsSemanticGeneric(str) ==
  /\ Len(str) >= 1
  /\ \A k \in 1..Len(str) : str[k] >= 0

\* version.MustParseSemantic accepts exactly three numeric components and
\* panics on anything else.
IsSemantic(str) ==
  /\ Len(str) = 3
  /\ \A k \in 1..Len(str) : str[k] >= 0

\* Comparison of two parsed versions, component by component from position
\* k on: -1, 0 or 1.
RECURSIVE Compare(_, _, _)
Compare(v, other, k) ==
  IF k > Len(v) THEN 0
  ELSE IF v[k] < other[k] THEN -1
  ELSE IF v[k] > other[k] THEN 1
  ELSE Compare(v, other, k + 1)

\* AtLeast with the threshold itself left out.
AtLeastStrict(v, min) == Compare(v, min, 1) = 1

\* kubeVersion.AtLeast(min)
AtLeast(v, min) == Compare(v, min, 1) # -1

serverVersionV170 == <<1, 7, 0>>

\* ------------------------------------------------------------------- state
VARIABLES
  resources,   \* the descriptor list of the call
  context,     \* Context: Interval and Timeout
  crds,        \* control plane: names of the CRD declarations present
  tprs,        \* control plane: names of the TPR declarations present
  crds0,       \* crds when the call started
  tprs0,       \* tprs when the call started
  pc,          \* "version", "create", "wait", "rollback", "done", "panic"
  gitVersion,  \* serverVersion.GitVersion
  i,           \* index of the loop in progress
  lastErr,     \* the variable lastErr
  ret,         \* value returned by the call (None until it returns)
  createAns,   \* per index: control plane's answer to the create
  createErr,   \* per index: value returned by createCRD / createTPR
  creates,     \* per index: creates issued
  polled,      \* per index: a fetch (CRD) or probe (TPR) was issued
  polls,       \* fetches or probes issued by the latest wait.Poll
  notFounds,   \* how many of them were answered "not found"
  deletes,     \* per index: deletes issued
  waitErr,     \* per index: value returned by waitForCRDInit / waitForTPRInit
  pollErr,     \* value returned by wait.Poll, while the rollback is pending
  pollRes,     \* per index: value returned by wait.Poll
  deleteAns,   \* per index: control plane's answer to the delete
  elapsed,     \* time since the current wait.Poll started
  lastOp       \* the last request sent to the control plane and its answer

vars == << resources, context, crds, tprs, crds0, tprs0, pc, gitVersion,
           i, lastErr, ret, createAns, createErr, creates, polled, polls,
           notFounds, deletes, waitErr, pollErr, pollRes, deleteAns, elapsed,
           lastOp >>

N == Len(resources)
NoOp == [op |-> "none", idx |-> 0, name |-> <<>>, ans |-> None, conds |-> <<>>]
Op(op, idx, name, ans, conds) ==
  [op |-> op, idx |-> idx, name |-> name, ans |-> ans, conds |-> conds]

UseCRD == AtLeast(gitVersion, serverVersionV170)

\* ----------------------------------------------------- control plane answers
CondTypes == {"Established", "NamesAccepted"}
CondStatuses == {"True", "False"}
Conditions == [Type : CondTypes, Status : CondStatuses]
\* Status.Conditions: at most one condition of each type, in any order.
ConditionLists ==
  { c \in UNION { [1..n -> Conditions] : n \in 0..Cardinality(CondTypes) } :
      \A j, k \in 1..Len(c) : j # k => c[j].Type # c[k].Type }

\* Discovery().ServerVersion(): a version string or an error.
VersionAnswers ==
  { [err |-> Nil, GitVersion |-> v] : v \in GitVersions }
    \cup { [err |-> ApiErr("ServerError"), GitVersion |-> NoVersion] }

\* Create of a declaration: created unless it is present; may be refused.
CreateAnswers(present) ==
  (IF present THEN {ApiErr("AlreadyExists")} ELSE {Nil}) \cup {ApiErr("Forbidden")}

\* Get of a CRD: its conditions when it is present, otherwise not found.
GetAnswers(present) ==
  (IF present
     THEN { [err |-> Nil, conds |-> c] : c \in ConditionLists }
     ELSE { [err |-> ApiErr("NotFound"), conds |-> <<>>] })
    \cup { [err |-> ApiErr("ServerError"), conds |-> <<>>] }

\* GET apis/<group>/<version>/<plural>: served once the TPR is established.
ProbeAnswers(present) ==
  (IF present THEN {Nil} ELSE {}) \cup {ApiErr("NotFound"), ApiErr("ServerError")}

\* Delete of a TPR.
DeleteAnswers(present) ==
  (IF present THEN {Nil} ELSE {ApiErr("NotFound")}) \cup {ApiErr("ServerError")}

\* ------------------------------------------------------------ pure functions
\* createCRD without the IsAlreadyExists test.
createCRDStrict(resource, err) ==
  IF err # Nil
    THEN Err("failed to create CRD", resource.Name, <<err>>)
    ELSE Nil

\* createCRD: what it returns for the answer err of the Create call.
createCRD(resource, err) ==
  IF err # Nil /\ ~IsAlreadyExists(err)
    THEN Err("failed to create CRD", resource.Name, <<err>>)
    ELSE Nil

\* createTPR: what it returns for the answer err of the Create call.
createTPR(resource, err) ==
  IF err # Nil /\ ~IsAlreadyExists(err)
    THEN Err("failed to create TPR", resource.Name, <<err>>)
    ELSE Nil

\* The loop over the conditions looking for a name conflict anywhere in the
\* list before it accepts Established.
CheckConditionsConflictFirst(conds, k) ==
  IF \E j \in k..Len(conds) :
       conds[j].Type = "NamesAccepted" /\ conds[j].Status = "False"
    THEN [ok |-> FALSE, err |-> Err("Name conflict", "", <<>>)]
  ELSE IF \E j \in k..Len(conds) :
       conds[j].Type = "Established" /\ conds[j].Status = "True"
    THEN [ok |-> TRUE, err |-> Nil]
  ELSE [ok |-> FALSE, err |-> Nil]

\* The loop over the conditions with Established looked for first.
CheckConditionsEstablishedFirst(conds, k) ==
  IF \E j \in k..Len(conds) :
       conds[j].Type = "Established" /\ conds[j].Status = "True"
    THEN [ok |-> TRUE, err |-> Nil]
  ELSE IF \E j \in k..Len(conds) :
       conds[j].Type = "NamesAccepted" /\ conds[j].Status = "False"
    THEN [ok |-> FALSE, err |-> Err("Name conflict", "", <<>>)]
  ELSE [ok |-> FALSE, err |-> Nil]

\* The loop over the conditions going on to the end of the list, so that the
\* last terminal condition decides.
RECURSIVE CheckConditionsLastWins(_, _)
CheckConditionsLastWins(conds, k) ==
  IF k > Len(conds) THEN [ok |-> FALSE, err |-> Nil]
  ELSE LET rest == CheckConditionsLastWins(conds, k + 1)
       IN IF rest.ok \/ rest.err # Nil THEN rest
          ELSE IF conds[k].Type = "Established" /\ conds[k].Status = "True"
            THEN [ok |-> TRUE, err |-> Nil]
          ELSE IF conds[k].Type = "NamesAccepted" /\ conds[k].Status = "False"
            THEN [ok |-> FALSE, err |-> Err("Name conflict", "", <<>>)]
          ELSE rest

\* The loop over crd.Status.Conditions, from position k on.
RECURSIVE CheckConditions(_, _)
CheckConditions(conds, k) ==
  IF k > Len(conds) THEN [ok |-> FALSE, err |-> Nil]
  ELSE IF conds[k].Type = "Established" /\ conds[k].Status = "True"
    THEN [ok |-> TRUE, err |-> Nil]
  ELSE IF conds[k].Type = "NamesAccepted" /\ conds[k].Status = "False"
    THEN [ok |-> FALSE, err |-> Err("Name conflict", "", <<>>)]
  ELSE CheckConditions(conds, k + 1)

\* The condition function of waitForCRDInit retrying a "not found" fetch, as
\* the condition function of waitForTPRInit does.
crdConditionRetriesNotFound(ans) ==
  IF ans.err # Nil
    THEN IF IsNotFound(ans.err) THEN [ok |-> FALSE, err |-> Nil]
         ELSE [ok |-> FALSE, err |-> ans.err]
    ELSE CheckConditions(ans.conds, 1)

\* The condition function of waitForCRDInit answering "not done" where it
\* should answer "done".
crdConditionNeverDone(ans) ==
  IF ans.err # Nil THEN [ok |-> FALSE, err |-> ans.err]
  ELSE [ok |-> FALSE, err |-> CheckConditions(ans.conds, 1).err]

\* The condition function waitForCRDInit hands to wait.Poll.
crdCondition(ans) ==
  IF ans.err # Nil THEN [ok |-> FALSE, err |-> ans.err]
  ELSE CheckConditions(ans.conds, 1)

\* The condition function of waitForTPRInit retrying on every error.
tprConditionRetriesAll(err) ==
  IF err # Nil THEN [ok |-> FALSE, err |-> Nil]
  ELSE [ok |-> TRUE, err |-> Nil]

\* The condition function of waitForTPRInit without the IsNotFound test.
tprConditionNoRetry(err) ==
  IF err # Nil THEN [ok |-> FALSE, err |-> err]
  ELSE [ok |-> TRUE, err |-> Nil]

\* The condition function waitForTPRInit hands to wait.Poll.
tprCondition(err) ==
  IF err # Nil
    THEN IF IsNotFound(err) THEN [ok |-> FALSE, err |-> Nil]
         ELSE [ok |-> FALSE, err |-> err]
    ELSE [ok |-> TRUE, err |-> Nil]

\* wait.Poll after one call of the condition: the error wins, then success,
\* then the timeout when the tick channel was closed; None: keep polling.
PollResult(cond, open) ==
  IF cond.err # Nil THEN cond.err
  ELSE IF cond.ok THEN Nil
  ELSE IF ~open THEN ErrWaitTimeout
  ELSE None

\* wait.Poll's clock without the deadline: the channel is never closed.
PollTimesNoDeadline(ctx, now) ==
  { [open |-> TRUE,
     at |-> IF now + ctx.Interval <= ctx.Timeout
              THEN now + ctx.Interval ELSE ctx.Timeout] }

\* wait.Poll's clock: the next call of the condition comes with a tick, one
\* Interval after the last, or with the close of the channel at Timeout. When
\* both fall on the same instant either may come first.
PollTimes(ctx, now) ==
  (IF now + ctx.Interval <= ctx.Timeout
     THEN {[open |-> TRUE, at |-> now + ctx.Interval]} ELSE {})
    \cup
  (IF now + ctx.Interval >= ctx.Timeout
     THEN {[open |-> FALSE, at |-> ctx.Timeout]} ELSE {})

\* waitForTPRInit returning the delete error alone when the delete fails.
tprRollbackResultDeleteOnly(err, deleteErr) ==
  IF deleteErr # Nil THEN deleteErr ELSE err

\* waitForTPRInit after wait.Poll failed with err and Delete answered deleteErr.
tprRollbackResult(err, deleteErr) ==
  IF deleteErr # Nil
    THEN Err("Aggregate", "", <<err, deleteErr>>)
    ELSE err

\* lastErr keeping the first error instead of the last.
KeepFirst(last, err) == IF last # Nil THEN last ELSE err

\* "if err != nil { lastErr = err }"
KeepLast(last, err) == IF err # Nil THEN err ELSE last

\* ------------------------------------------------------------------- Init
Blank(n, v) == [k \in 1..n |-> v]

Init ==
  /\ resources \in ResourceLists
  /\ context \in Contexts
  /\ crds \in SUBSET { crdName(r) : r \in Resources }
  /\ tprs \in SUBSET { tprName(r) : r \in Resources }
  /\ crds = {} \/ tprs = {}
  /\ crds0 = crds
  /\ tprs0 = tprs
  /\ pc = "version"
  /\ gitVersion = NoVersion
  /\ i = 0
  /\ lastErr = Nil
  /\ ret = None
  /\ createAns = Blank(N, None)
  /\ createErr = Blank(N, None)
  /\ creates = Blank(N, 0)
  /\ polled = Blank(N, FALSE)
  /\ polls = 0
  /\ notFounds = 0
  /\ deletes = Blank(N, 0)
  /\ waitErr = Blank(N, None)
  /\ pollErr = None
  /\ pollRes = Blank(N, None)
  /\ deleteAns = Blank(N, None)
  /\ elapsed = 0
  /\ lastOp = NoOp

\* ---------------------------------------------------------------- actions
\* Lines 73-80: the server version is fetched and parsed; the first loop of
\* the chosen branch is entered (or, with no descriptors, both loops of the
\* branch are skipped and lastErr is returned).
GetServerVersion ==
  /\ pc = "version"
  /\ \E ans \in VersionAnswers :
       /\ gitVersion' = ans.GitVersion
       /\ IF ans.err # Nil
            THEN /\ pc' = "done"
                 /\ ret' = Err("Error getting server version", "", <<ans.err>>)
                 /\ i' = i
            ELSE IF ~IsSemantic(ans.GitVersion)
              THEN pc' = "panic" /\ ret' = ret /\ i' = i
            ELSE IF N = 0
              THEN pc' = "done" /\ ret' = lastErr /\ i' = i
            ELSE pc' = "create" /\ ret' = ret /\ i' = 1
  /\ UNCHANGED << resources, context, crds, tprs, crds0, tprs0, lastErr,
                  createAns, createErr, creates, polled, polls, notFounds,
                  deletes, waitErr, pollErr, pollRes, deleteAns, elapsed,
                  lastOp >>

\* Create loop that hands each descriptor to the wait loop at once.
NextCreatePipelined == pc' = "wait" /\ i' = 1

\* Wait loop that goes on from the index the create loop stopped at.
NextCreateKeepsIndex ==
  IF i < N THEN pc' = "create" /\ i' = i + 1
  ELSE pc' = "wait" /\ i' = i

\* The loop variable after one iteration of a create loop: the next
\* descriptor, or the first descriptor of the wait loop.
NextCreate ==
  IF i < N THEN pc' = "create" /\ i' = i + 1
  ELSE pc' = "wait" /\ i' = 1

\* Lines 81-86: one iteration of the CRD create loop.
CreateCRD ==
  /\ pc = "create"
  /\ UseCRD
  /\ LET resource == resources[i]
         name == crdName(resource)
     IN \E ans \in CreateAnswers(name \in crds) :
          /\ crds' = IF ans = Nil THEN crds \cup {name} ELSE crds
          /\ createAns' = [createAns EXCEPT ![i] = ans]
          /\ createErr' = [createErr EXCEPT ![i] = createCRD(resource, ans)]
          /\ creates' = [creates EXCEPT ![i] = @ + 1]
          /\ lastErr' = KeepLast(lastErr, createCRD(resource, ans))
          /\ lastOp' = Op("createCRD", i, name, ans, <<>>)
  /\ NextCreate
  /\ elapsed' = 0
  /\ UNCHANGED << resources, context, tprs, crds0, tprs0, gitVersion, ret,
                  polled, polls, notFounds, deletes, waitErr, pollErr, pollRes,
                  deleteAns >>

\* Lines 95-100: one iteration of the TPR create loop.
CreateTPR ==
  /\ pc = "create"
  /\ ~UseCRD
  /\ LET resource == resources[i]
         name == tprName(resource)
     IN \E ans \in CreateAnswers(name \in tprs) :
          /\ tprs' = IF ans = Nil THEN tprs \cup {name} ELSE tprs
          /\ createAns' = [createAns EXCEPT ![i] = ans]
          /\ createErr' = [createErr EXCEPT ![i] = createTPR(resource, ans)]
          /\ creates' = [creates EXCEPT ![i] = @ + 1]
          /\ lastErr' = KeepLast(lastErr, createTPR(resource, ans))
          /\ lastOp' = Op("createTPR", i, name, ans, <<>>)
  /\ NextCreate
  /\ elapsed' = 0
  /\ UNCHANGED << resources, context, crds, crds0, tprs0, gitVersion, ret,
                  polled, polls, notFounds, deletes, waitErr, pollErr, pollRes,
                  deleteAns >>

\* A counter of the latest wait.Poll, as the next call of the condition
\* finds it: wait.Poll starts at time 0 with nothing issued.
Count(c) == IF elapsed = 0 THEN 0 ELSE c

\* Wait loop that returns at the first failed wait.
FinishWaitFailFast(err) ==
  /\ waitErr' = [waitErr EXCEPT ![i] = err]
  /\ lastErr' = KeepLast(lastErr, err)
  /\ pollErr' = None
  /\ elapsed' = 0
  /\ IF i < N /\ err = Nil
       THEN pc' = "wait" /\ i' = i + 1 /\ ret' = ret
       ELSE pc' = "done" /\ i' = i /\ ret' = lastErr'

\* The wait of descriptor i returned err: lastErr is updated and the wait
\* loop goes on with the next descriptor, or the call returns lastErr.
FinishWait(err) ==
  /\ waitErr' = [waitErr EXCEPT ![i] = err]
  /\ lastErr' = KeepLast(lastErr, err)
  /\ pollErr' = None
  /\ elapsed' = 0
  /\ IF i < N
       THEN pc' = "wait" /\ i' = i + 1 /\ ret' = ret
       ELSE pc' = "done" /\ i' = i /\ ret' = lastErr'

\* Lines 88-92 and 138-159: one call of the condition function of
\* waitForCRDInit, and what wait.Poll and the wait loop do with its result.
PollCRD ==
  /\ pc = "wait"
  /\ UseCRD
  /\ LET name == crdName(resources[i])
     IN \E t \in PollTimes(context, elapsed), ans \in GetAnswers(name \in crds) :
          LET res == PollResult(crdCondition(ans), t.open)
          IN /\ polled' = [polled EXCEPT ![i] = TRUE]
             /\ polls' = Count(polls) + 1
             /\ notFounds' = Count(notFounds) + (IF IsNotFound(ans.err) THEN 1 ELSE 0)
             /\ lastOp' = Op("getCRD", i, name, ans.err, ans.conds)
             /\ pollRes' = [pollRes EXCEPT ![i] = res]
             /\ IF res = None
                  THEN /\ elapsed' = t.at
                       /\ UNCHANGED << pc, i, ret, lastErr, waitErr, pollErr >>
                  ELSE FinishWait(res)
  /\ UNCHANGED << resources, context, crds, tprs, crds0, tprs0, gitVersion,
                  createAns, createErr, creates, deletes, deleteAns >>

\* "if err != nil" at line 198 taken only for the timeout.
NeedsRollbackOnTimeout(err) == err = ErrWaitTimeout

\* "if err != nil" at line 198 taken whatever wait.Poll returned.
NeedsRollbackAlways(err) == TRUE

\* "if err != nil" at line 198: the delete follows every failed wait.Poll.
NeedsRollback(err) == err # Nil

\* Lines 102-106 and 181-197: one call of the condition function of
\* waitForTPRInit; a failed wait.Poll leads to the rollback.
PollTPR ==
  /\ pc = "wait"
  /\ ~UseCRD
  /\ LET resource == resources[i]
         name == tprName(resource)
         uri == <<"apis", resource.Group, resource.Plural>>
     IN \E t \in PollTimes(context, elapsed), ans \in ProbeAnswers(name \in tprs) :
          LET res == PollResult(tprCondition(ans), t.open)
          IN /\ polled' = [polled EXCEPT ![i] = TRUE]
             /\ polls' = Count(polls) + 1
             /\ notFounds' = Count(notFounds) + (IF IsNotFound(ans) THEN 1 ELSE 0)
             /\ lastOp' = Op("probe", i, uri, ans, <<>>)
             /\ pollRes' = [pollRes EXCEPT ![i] = res]
             /\ IF res = None
                  THEN /\ elapsed' = t.at
                       /\ UNCHANGED << pc, i, ret, lastErr, waitErr, pollErr >>
                  ELSE IF ~NeedsRollback(res)
                    THEN FinishWait(res)
                  ELSE /\ pc' = "rollback"
                       /\ pollErr' = res
                       /\ elapsed' = t.at
                       /\ UNCHANGED << i, ret, lastErr, waitErr >>
  /\ UNCHANGED << resources, context, crds, tprs, crds0, tprs0, gitVersion,
                  createAns, createErr, creates, deletes, deleteAns >>

\* Lines 198-204: the compensating delete after a failed wait.Poll.
DeleteTPR ==
  /\ pc = "rollback"
  /\ LET name == tprName(resources[i])
     IN \E ans \in DeleteAnswers(name \in tprs) :
          /\ tprs' = IF ans = Nil THEN tprs \ {name} ELSE tprs
          /\ deletes' = [deletes EXCEPT ![i] = @ + 1]
          /\ deleteAns' = [deleteAns EXCEPT ![i] = ans]
          /\ lastOp' = Op("deleteTPR", i, name, ans, <<>>)
          /\ FinishWait(tprRollbackResult(pollErr, ans))
  /\ UNCHANGED << resources, context, crds, crds0, tprs0, gitVersion,
                  createAns, createErr, creates, polled, polls, notFounds,
                  pollRes >>

Next ==
  \/ GetServerVersion
  \/ CreateCRD
  \/ CreateTPR
  \/ PollCRD
  \/ PollTPR
  \/ DeleteTPR

Spec == Init /\ [][Next]_vars

\* ==================================================================== claims
\* The call went through both loops of its branch and returned.
BothPhasesRan == pc = "done" /\ gitVersion # NoVersion
Idx == 1..N
Failed(err) == err # Nil /\ err # None

\* C1: no fetch and no probe is issued while some descriptor has not had its
\* create attempted: once any descriptor was checked, every descriptor has
\* had its create issued.
C1_CreatesBeforeChecks ==
  (\E k \in Idx : polled[k]) => (\A k \in Idx : creates[k] >= 1)

\* C1 case: a descriptor is being checked after the first create failed.
C1_Witness ==
  /\ N = 2
  /\ Failed(createErr[1])
  /\ polled[1]
  /\ pc = "wait"

\* C2: whatever failed, each descriptor gets exactly one create and has its
\* readiness wait started: no descriptor is ever created twice, and when the
\* call returns each has one create and at least one check.
C2_BestEffortBatch ==
  /\ \A k \in Idx : creates[k] <= 1
  /\ BothPhasesRan => \A k \in Idx : creates[k] = 1 /\ polled[k] /\ waitErr[k] # None

\* C2 case: the first descriptor failed both its create and its wait, and the
\* second was still created and checked.
C2_Witness ==
  /\ BothPhasesRan
  /\ N = 2
  /\ Failed(createErr[1])
  /\ Failed(waitErr[1])
  /\ creates[2] = 1
  /\ polled[2]

\* The failure that came last in execution order: the failed wait of the
\* highest index, or with no failed wait the failed create of the highest
\* index.
LastOf(errs) ==
  LET failed == { k \in Idx : Failed(errs[k]) }
  IN IF failed = {} THEN Nil
     ELSE errs[CHOOSE k \in failed : \A j \in failed : j <= k]

LastFailure ==
  IF LastOf(waitErr) # Nil THEN LastOf(waitErr) ELSE LastOf(createErr)

\* C3: the call returns nil exactly when no create was answered with an error
\* other than already-exists and no wait failed; otherwise it returns the
\* failure that came last in execution order.
C3_ReturnsLastFailure ==
  BothPhasesRan =>
    /\ ret = LastFailure
    /\ ret = Nil <=>
         \A k \in Idx : /\ createAns[k] \in {Nil, ApiErr("AlreadyExists")}
                        /\ waitErr[k] = Nil

\* C3 case: the second create failed and the first wait failed, the second
\* wait did not: the failure of the first wait is returned.
C3_Witness ==
  /\ BothPhasesRan
  /\ N = 2
  /\ Failed(createErr[2])
  /\ Failed(waitErr[1])
  /\ waitErr[2] = Nil
  /\ ret = waitErr[1]

\* C4: a create answered already-exists reports no error, in both protocols;
\* and a call whose creates are all answered already-exists and whose waits
\* all find the declaration ready returns nil.
C4_IdempotentRegistration ==
  /\ \A k \in Idx : createAns[k] = ApiErr("AlreadyExists") => createErr[k] = Nil
  /\ ( /\ BothPhasesRan
       /\ \A k \in Idx : createAns[k] = ApiErr("AlreadyExists") /\ waitErr[k] = Nil )
     => ret = Nil

\* C4 case: both descriptors were registered before the call, in the modern
\* protocol, and the call returned nil.
C4_Witness ==
  /\ BothPhasesRan
  /\ N = 2
  /\ lastOp.op = "getCRD"
  /\ \A k \in Idx : createAns[k] = ApiErr("AlreadyExists")
  /\ crds0 = { crdName(r) : r \in Resources }
  /\ ret = Nil

ModernOps == {"createCRD", "getCRD"}
LegacyOps == {"createTPR", "probe", "deleteTPR"}
\* v is lower than 1.7.0
Below170(v) == v[1] < 1 \/ (v[1] = 1 /\ v[2] < 7)

\* C5: every request of a call is a modern one (CRD create, CRD fetch) when
\* the server version is 1.7.0 or higher, and a legacy one (TPR create,
\* probe, TPR delete) when it is lower.
C5_ProtocolByVersion ==
  /\ lastOp.op \in ModernOps \cup LegacyOps \cup {"none"}
  /\ lastOp.op \in ModernOps => ~Below170(gitVersion)
  /\ lastOp.op \in LegacyOps => Below170(gitVersion)

\* C5 case: a server of exactly 1.7.0, whose declarations are fetched as CRDs.
C5_Witness ==
  /\ gitVersion = <<1, 7, 0>>
  /\ lastOp.op = "getCRD"
  /\ lastOp.idx = 2

\* C6: when the server version cannot be obtained or is no semantic version,
\* the call ends before either loop: nothing was created, fetched, probed or
\* deleted, and the declarations are those of the start.
C6_VersionFailureTouchesNothing ==
  (pc # "version" /\ gitVersion \in {NoVersion, <<1, 7>>, <<1, -1, 0>>}) =>
    /\ pc \in {"panic", "done"}
    /\ pc = "done" => Failed(ret)
    /\ lastOp = NoOp
    /\ \A k \in Idx : creates[k] = 0 /\ ~polled[k] /\ deletes[k] = 0
    /\ crds = crds0
    /\ tprs = tprs0

\* C6 case: a version string of two components, with two descriptors to
\* register.
C6_Witness ==
  /\ pc = "panic"
  /\ gitVersion = <<1, 7>>
  /\ N = 2

\* ------------------------------------------------ claims on the modern wait
IsEstablished(cond) == cond.Type = "Established" /\ cond.Status = "True"
IsNameConflict(cond) == cond.Type = "NamesAccepted" /\ cond.Status = "False"
NameConflict == Err("Name conflict", "", <<>>)

\* The last request was a fetch that returned a status.
Fetched == lastOp.op = "getCRD" /\ lastOp.ans = Nil
\* The fetched list holds Established=true / NamesAccepted=false somewhere.
HasEstablished == \E k \in 1..Len(lastOp.conds) : IsEstablished(lastOp.conds[k])
HasNameConflict == \E k \in 1..Len(lastOp.conds) : IsNameConflict(lastOp.conds[k])
\* ... with the other of the two nowhere before it.
EstablishedFirst ==
  \E k \in 1..Len(lastOp.conds) :
    /\ IsEstablished(lastOp.conds[k])
    /\ \A j \in 1..(k - 1) : ~IsNameConflict(lastOp.conds[j])
NameConflictFirst ==
  \E k \in 1..Len(lastOp.conds) :
    /\ IsNameConflict(lastOp.conds[k])
    /\ \A j \in 1..(k - 1) : ~IsEstablished(lastOp.conds[j])

\* C7 as stated: a fetched status that holds Established=true anywhere ends
\* the wait of that descriptor in success at that poll.
C7_AnyOrder ==
  (Fetched /\ HasEstablished) => waitErr[lastOp.idx] = Nil

\* C7 amended: a fetched status that holds Established=true with no
\* NamesAccepted=false before it in the list ends the wait of that
\* descriptor in success at that poll, whatever else the list holds.
C7_EstablishedEndsWait ==
  (Fetched /\ EstablishedFirst) => waitErr[lastOp.idx] = Nil

\* C7 case: Established=true followed by NamesAccepted=false, at the first
\* poll of the second descriptor.
C7_Witness ==
  /\ Fetched
  /\ lastOp.idx = 2
  /\ polls = 1
  /\ lastOp.conds = << [Type |-> "Established", Status |-> "True"],
                       [Type |-> "NamesAccepted", Status |-> "False"] >>
  /\ waitErr[2] = Nil

\* C8 as stated: a fetched status that holds NamesAccepted=false anywhere
\* ends the wait of that descriptor with the naming-conflict error at that
\* poll.
C8_AnyOrder ==
  (Fetched /\ HasNameConflict) => waitErr[lastOp.idx] = NameConflict

\* C8 amended: a fetched status that holds NamesAccepted=false with no
\* Established=true before it in the list ends the wait of that descriptor
\* with the naming-conflict error at that poll: the wait loop has left the
\* descriptor, so that no fetch follows for it and the timeout is not waited
\* out; and a call in which a descriptor failed so has still checked every
\* descriptor when it returns.
C8_NameConflictEndsWait ==
  /\ (Fetched /\ NameConflictFirst) =>
       /\ waitErr[lastOp.idx] = NameConflict
       /\ pc \in {"wait", "done"}
       /\ pc = "wait" => i = lastOp.idx + 1
       /\ pc = "done" => lastOp.idx = N
  /\ (BothPhasesRan /\ \E k \in Idx : waitErr[k] = NameConflict) =>
       \A k \in Idx : polled[k]

\* C8 case: the first descriptor meets the conflict at its first poll, with
\* the timeout two intervals away, and the second descriptor is next.
C8_Witness ==
  /\ Fetched
  /\ NameConflictFirst
  /\ lastOp.idx = 1
  /\ polls = 1
  /\ context = [Interval |-> 1, Timeout |-> 3]
  /\ N = 2
  /\ pc = "wait"
  /\ i = 2

C10_NotFoundKeepsPolling ==
  /\ (lastOp.op = "probe" /\ IsNotFound(lastOp.ans)) =>
       \/ pc = "wait" /\ i = lastOp.idx /\ waitErr[i] = None
       \/ /\ pc = "rollback"
          /\ i = lastOp.idx
          /\ pollErr = ErrWaitTimeout
          /\ elapsed = context.Timeout
  /\ (lastOp.op = "probe" /\ lastOp.ans = Nil) =>
       /\ waitErr[lastOp.idx] = Nil
       /\ polls = notFounds + 1
       /\ deletes[lastOp.idx] = 0

\* C10 case: three probes answered "not found", the fourth with success.
C10_Witness ==
  /\ lastOp.op = "probe"
  /\ lastOp.ans = Nil
  /\ notFounds = 3
  /\ polls = 4
  /\ waitErr[lastOp.idx] = Nil

\* The call took the legacy branch.
Legacy == IsSemantic(gitVersion) /\ Below170(gitVersion)
\* err is e or a combination that holds e.
Carries(err, e) == err = e \/ \E k \in 1..Len(err.causes) : err.causes[k] = e

\* C11: a probe answered with an error other than "not found" ends the
\* wait.Poll of that descriptor with that error at that poll: the rollback
\* follows and no further probe, and the failure reported for the descriptor
\* carries the probe error.
C11_ProbeErrorEndsWait ==
  /\ (lastOp.op = "probe" /\ Failed(lastOp.ans) /\ ~IsNotFound(lastOp.ans)) =>
       /\ pc = "rollback"
       /\ i = lastOp.idx
       /\ pollRes[i] = lastOp.ans
  /\ \A k \in Idx :
       (Legacy /\ Failed(pollRes[k]) /\ pollRes[k] # ErrWaitTimeout) =>
         /\ ~(pc = "wait" /\ i = k)
         /\ waitErr[k] # None => Carries(waitErr[k], pollRes[k])
         /\ pollRes[k] = ApiErr("ServerError")

\* C11 case: the first probe of the first descriptor fails with a server
\* error, long before the timeout; the failure is reported and the second
\* descriptor is next.
C11_Witness ==
  /\ Legacy
  /\ N = 2
  /\ context = [Interval |-> 1, Timeout |-> 3]
  /\ pollRes[1] = ApiErr("ServerError")
  /\ polls = 1
  /\ lastOp.op = "deleteTPR"
  /\ waitErr[1] = ApiErr("ServerError")
  /\ pc = "wait"
  /\ i = 2

\* C12: in the legacy branch a descriptor whose wait.Poll failed (probe error
\* or timeout) gets exactly one delete, of the declaration <name>.<group>,
\* after its last probe and before the first probe of the next descriptor; a
\* descriptor whose wait.Poll succeeded gets none.
C12_RollbackOnFailure ==
  /\ \A k \in Idx :
       /\ deletes[k] <= 1
       /\ deletes[k] = 1 =>
            /\ Failed(pollRes[k])
            /\ polled[k]
            /\ ~(pc = "wait" /\ i = k)
       /\ (Legacy /\ waitErr[k] # None) =>
            deletes[k] = (IF Failed(pollRes[k]) THEN 1 ELSE 0)
       /\ (k < N /\ polled[k + 1]) => waitErr[k] # None
  /\ lastOp.op = "deleteTPR" =>
       lastOp.name = << resources[lastOp.idx].Name, resources[lastOp.idx].Group >>

\* C12 case: the first descriptor timed out and was deleted, the second
\* succeeded and was not.
C12_Witness ==
  /\ BothPhasesRan
  /\ N = 2
  /\ pollRes[1] = ErrWaitTimeout
  /\ deletes[1] = 1
  /\ pollRes[2] = Nil
  /\ deletes[2] = 0

\* C13: after a failed wait.Poll, a delete that succeeds leaves the error of
\* wait.Poll as the error reported for the descriptor; a delete that fails
\* makes it the combination of the error of wait.Poll and the delete error.
C13_RollbackErrors ==
  \A k \in Idx :
    (deletes[k] = 1 /\ Failed(pollRes[k])) =>
      /\ deleteAns[k] = Nil => waitErr[k] = pollRes[k]
      /\ Failed(deleteAns[k]) =>
           /\ waitErr[k].kind = "Aggregate"
           /\ waitErr[k].causes = << pollRes[k], deleteAns[k] >>

\* C13 case: a timeout whose delete failed, and a probe error whose delete
\* succeeded.
C13_Witness ==
  /\ N = 2
  /\ pollRes[1] = ErrWaitTimeout
  /\ Failed(deleteAns[1])
  /\ pollRes[2] = ApiErr("ServerError")
  /\ deleteAns[2] = Nil
  /\ waitErr[2] = ApiErr("ServerError")

\* C14 as stated: a delete is only issued for a declaration that the create
\* of the same call created.
C14_DeletesOnlyCreated ==
  lastOp.op = "deleteTPR" => createAns[lastOp.idx] = Nil

\* The last check was answered with nothing that ends a wait.
NonTerminalAnswer ==
  \/ lastOp.op = "probe" /\ IsNotFound(lastOp.ans)
  \/ Fetched /\ ~HasEstablished /\ ~HasNameConflict

\* How far the call has come: the version step, the creates in list order,
\* then for each descriptor in list order the time its wait.Poll has run and
\* its rollback, then the end of the call.
WaitSpan == context.Timeout + 2
Progress ==
  CASE pc = "version" -> 0
    [] pc = "create" -> i
    [] pc = "wait" -> N + 1 + (i - 1) * WaitSpan + elapsed
    [] pc = "rollback" -> N + 1 + (i - 1) * WaitSpan + context.Timeout + 1
    [] OTHER -> N + 1 + N * WaitSpan

\* C15: a wait never runs past its timeout and issues at most one check per
\* interval plus the one at the timeout; a wait that ends on an answer that
\* is not terminal ends with the timeout error of wait.Poll, at the timeout;
\* and every call ends: as long as it has not ended it can take a step, and
\* each step brings it further on a way of bounded length.
C15_TimeoutAndTermination ==
  /\ [](elapsed <= context.Timeout)
  /\ []((pc \in {"wait", "rollback"} /\ elapsed > 0) =>
          (polls - 1) * context.Interval <= context.Timeout)
  /\ [][ \A k \in Idx :
           (pollRes[k] = None /\ pollRes'[k] # None /\ NonTerminalAnswer') =>
             /\ pollRes'[k] = ErrWaitTimeout
             /\ elapsed + context.Interval >= context.Timeout
             /\ waitErr'[k] # None \/ pc' = "rollback"
       ]_vars
  /\ [](pc \in {"done", "panic"} \/ ENABLED Next)
  /\ [](Progress <= N + 1 + N * WaitSpan)
  /\ [][Progress' > Progress]_vars

\* C15 case: both descriptors timed out, the second after four checks, one
\* per interval and the one at the timeout.
C15_Witness ==
  /\ BothPhasesRan
  /\ N = 2
  /\ context = [Interval |-> 1, Timeout |-> 3]
  /\ pollRes[1] = ErrWaitTimeout
  /\ pollRes[2] = ErrWaitTimeout
  /\ polls = 4
  /\ ret = ErrWaitTimeout

\* C16: a fetch answered with an error, "not found" included, ends the wait
\* of that descriptor at that poll with that error: the wait loop has left
\* the descriptor, so that the fetch is never retried.
C16_FetchErrorEndsWait ==
  (lastOp.op = "getCRD" /\ Failed(lastOp.ans)) =>
    /\ waitErr[lastOp.idx] = lastOp.ans
    /\ pollRes[lastOp.idx] = lastOp.ans
    /\ ~(pc = "wait" /\ i = lastOp.idx)
    /\ pc = "wait" => i = lastOp.idx + 1

\* C16 case: the create of the first descriptor failed, and its first fetch
\* is answered "not found" with the timeout two intervals away.
C16_Witness ==
  /\ lastOp.op = "getCRD"
  /\ lastOp.idx = 1
  /\ IsNotFound(lastOp.ans)
  /\ Failed(createErr[1])
  /\ polls = 1
  /\ context = [Interval |-> 1, Timeout |-> 3]
  /\ waitErr[1] = ApiErr("NotFound")

\* The descriptors whose create, wait or rollback is in progress.
InProgress ==
  { k \in Idx : \/ pc \in {"create", "wait", "rollback"} /\ i = k
                \/ polled[k] /\ waitErr[k] = None }

\* C17: at most one descriptor is being registered or waited on; creates
\* are issued in list order and waits are run in list order, and the wait of
\* a descriptor, with its rollback delete, has returned before the first
\* check of the next descriptor.
C17_SequentialSweeps ==
  /\ Cardinality(InProgress) <= 1
  /\ \A k \in Idx :
       k < N =>
         /\ creates[k + 1] >= 1 => creates[k] = 1
         /\ polled[k + 1] => polled[k] /\ waitErr[k] # None
         /\ (polled[k + 1] /\ Failed(pollRes[k]) /\ Legacy) => deletes[k] = 1
         /\ (pc = "rollback" /\ i = k) => ~polled[k + 1]

\* C17 case: the first descriptor was rolled back and the second is being
\* probed.
C17_Witness ==
  /\ N = 2
  /\ deletes[1] = 1
  /\ waitErr[1] # None
  /\ polled[2]
  /\ waitErr[2] = None
  /\ pc = "wait"

\* C18: the outcome of a poll that fetched a status is decided by the first
\* condition of the list that is Established=true (success) or
\* NamesAccepted=false (naming conflict); with neither in the list the poll
\* is not terminal: the wait goes on, or ends on the timeout.
C18_FirstConditionDecides ==
  Fetched =>
    LET idx == lastOp.idx
        terminal == { k \in 1..Len(lastOp.conds) :
                        IsEstablished(lastOp.conds[k]) \/ IsNameConflict(lastOp.conds[k]) }
    IN IF terminal = {}
         THEN \/ pc = "wait" /\ i = idx /\ waitErr[idx] = None
              \/ waitErr[idx] = ErrWaitTimeout
         ELSE LET first == CHOOSE k \in terminal : \A j \in terminal : k <= j
              IN waitErr[idx] = (IF IsEstablished(lastOp.conds[first])
                                   THEN Nil ELSE NameConflict)

\* C18 case: NamesAccepted=false placed before Established=true fails.
C18_Witness ==
  /\ Fetched
  /\ lastOp.conds = << [Type |-> "NamesAccepted", Status |-> "False"],
                       [Type |-> "Established", Status |-> "True"] >>
  /\ waitErr[lastOp.idx] = NameConflict

\* C19: the requests of a call are creates, fetches, probes and deletes; a
\* call in the modern branch issues no delete, and a call in the legacy
\* branch issues none for a descriptor as long as no wait has failed; in both
\* cases every declaration present when the call started is still present.
C19_AppendOnly ==
  /\ lastOp.op \in {"none", "createCRD", "getCRD", "createTPR", "probe", "deleteTPR"}
  /\ (IsSemantic(gitVersion) /\ ~Below170(gitVersion)) =>
       /\ \A k \in Idx : deletes[k] = 0
       /\ crds0 \subseteq crds
       /\ tprs = tprs0
  /\ (Legacy /\ \A k \in Idx : ~Failed(pollRes[k])) =>
       /\ \A k \in Idx : deletes[k] = 0
       /\ pc # "rollback"
       /\ tprs0 \subseteq tprs
       /\ crds = crds0

\* C19 case: a legacy call that returned with every wait successful, one
\* declaration older than the call and one created by it.
C19_Witness ==
  /\ BothPhasesRan
  /\ Legacy
  /\ N = 2
  /\ \A k \in Idx : waitErr[k] = Nil
  /\ tprs0 = {<<"pool", "rook.io">>}
  /\ tprs = {<<"pool", "rook.io">>, <<"volume", "rook.io">>}
====
